---- MODULE Spec2Model ----
(***************************************************************************)
(* Memoize::MemoizeHandler (src/memoize/handler.hpp): the match callback   *)
(* that rewrites one annotated function definition with three edits        *)
(* submitted to a clang::Rewriter.                                         *)
(*                                                                         *)
(* Source text is a sequence of one-character strings; a source location   *)
(* is a 0-based offset into the file the SourceManager holds.              *)
(***************************************************************************)
EXTENDS Integers, Sequences, FiniteSets, TLC

VARIABLES
  pc,                    \* position inside MemoizeHandler::run
  SourceManager,         \* member, handler.hpp:222
  LanguageOptions,       \* member, handler.hpp:225
  Rewriter,              \* member (reference), handler.hpp:219
  Result,                \* argument of the invocation of run in progress
  NewName,               \* local of run, handler.hpp:74
  Prototype,             \* local of run, handler.hpp:75
  NewDefinition,         \* local of run, handler.hpp:77
  edits,                 \* edits submitted by the invocation in progress
  spanLog,               \* locations computed by the invocation in progress
  matched,               \* definitions of the current file already handled
  bufAtEntry,            \* rewrite buffer when the invocation started
  carried,               \* whose SourceManager the member held at entry
  fault                  \* why the process stopped, if it did

vars == <<pc, SourceManager, LanguageOptions, Rewriter, Result, NewName,
          Prototype, NewDefinition, edits, spanLog, matched, bufAtEntry,
          carried, fault>>

----------------------------------------------------------------------------
(* Bounds of the inputs. *)

MaxNameLen == 2
MaxParams == 3
MaxGap == 2

----------------------------------------------------------------------------
(* Text helpers. *)

IdentChars ==
  {"a", "b", "c", "d", "e", "f", "g", "h", "i", "j", "k", "l", "m", "n",
   "o", "p", "q", "r", "s", "t", "u", "v", "w", "x", "y", "z", "_"}

Spaces(n) == [i \in 1..n |-> " "]

Uninit == <<"<uninitialized>">>

NullDecl == [null |-> TRUE]

NoOffset == 0 - 1

(* The characters of sm in the half-open offset range [from, to): what     *)
(* std::string(first, last) copies from SourceManager::getCharacterData.   *)
(* A clang memory buffer ends in NUL.                                      *)
CharacterData(sm, from, to) ==
  [i \in 1..(IF to > from THEN to - from ELSE 0) |->
     IF from + i <= Len(sm) THEN sm[from + i] ELSE "\\0"]

----------------------------------------------------------------------------
(* The matched input: what the parser exposes for a function declaration   *)
(* and the file text it was parsed from.                                   *)

ReturnTypes == {"Int", "UInt"}

(* clang::QualType::getAsString: the canonical spelling of the type. *)
getAsString(type) ==
  IF type = "Int" THEN <<"i", "n", "t">> ELSE <<"u", "n", "s", "i", "g", "n", "e", "d", " ", "i", "n", "t">>

(* How the return type is written in the file. *)
WrittenType(type) ==
  IF type = "Int" THEN <<"i", "n", "t">> ELSE <<"u", "n", "s", "i", "g", "n", "e", "d">>

NameChars == <<"f", "i", "b", "o", "n", "a", "c">>

Names == {SubSeq(NameChars, 1, n) : n \in 1..MaxNameLen}

ParamPool ==
  << [type |-> <<"i", "n", "t">>, name |-> <<"x">>],
     [type |-> <<"f", "l", "o", "a", "t">>, name |-> <<"y">>],
     [type |-> <<"c", "h", "a", "r">>, name |-> <<"z">>],
     [type |-> <<"i", "n", "t">>, name |-> <<"w">>],
     [type |-> <<"l", "o", "n", "g">>, name |-> <<"v">>] >>

ParamLists == {SubSeq(ParamPool, 1, k) : k \in 0..MaxParams}

RECURSIVE CommaSeparated(_)
CommaSeparated(items) ==
  IF Len(items) = 0 THEN <<>>
  ELSE IF Len(items) = 1 THEN items[1]
  ELSE items[1] \o <<",", " ">> \o CommaSeparated(Tail(items))

(* "(T1 n1, T2 n2)" as written in the file. *)
ParameterListText(params) ==
  <<"(">> \o
  CommaSeparated([i \in 1..Len(params) |->
                    params[i].type \o <<" ">> \o params[i].name]) \o
  <<")">>

(* A body holding one self-recursive call, "{ f(x, y); }". *)
BodyText(name, params) ==
  <<"{", " ">> \o name \o <<"(">> \o
  CommaSeparated([i \in 1..Len(params) |-> params[i].name]) \o
  <<")", ";", " ", "}">>

(* The text of one declaration: "R f(T1 a, T2 b)" followed by gap blanks  *)
(* and the body, or by ";" when there is no body.                          *)
DeclText(type, name, params, gap, hasBody) ==
  WrittenType(type) \o <<" ">> \o name \o ParameterListText(params) \o
  (IF hasBody THEN Spaces(gap) \o BodyText(name, params) ELSE <<";">>)

(* The clang::FunctionDecl of that declaration when pre precedes it. *)
FunctionDecl(pre, type, name, params, gap, hasBody) ==
  LET start == Len(pre)
      loc == start + Len(WrittenType(type)) + 1
      rparen == loc + Len(name) + Len(ParameterListText(params)) - 1
      body == rparen + 1 + gap
  IN [Name |-> name,
      ReturnType |-> type,
      Params |-> params,
      HasBody |-> hasBody,
      LocStart |-> start,
      Location |-> loc,
      BodyStart |-> IF hasBody THEN body ELSE NoOffset,
      LocEnd |-> IF hasBody THEN body + Len(BodyText(name, params)) - 1
                 ELSE rparen]

(* A second annotated definition, "int g() { g(); }", that some files     *)
(* hold in front of the one under study.                                   *)
LeadingText == DeclText("Int", <<"g">>, <<>>, 1, TRUE) \o <<"\n">>

LeadingDecl == FunctionDecl(<<>>, "Int", <<"g">>, <<>>, 1, TRUE)

Prefixes == {<<>>, LeadingText}

Shapes ==
  {[type |-> t, name |-> n, params |-> ps, gap |-> g, hasBody |-> TRUE] :
     t \in ReturnTypes, n \in Names, ps \in ParamLists, g \in 0..MaxGap}
  \cup
  {[type |-> t, name |-> n, params |-> ps, gap |-> 0, hasBody |-> FALSE] :
     t \in ReturnTypes, n \in Names, ps \in ParamLists}

FileOf(pre, sh) ==
  pre \o DeclText(sh.type, sh.name, sh.params, sh.gap, sh.hasBody)

DeclOf(pre, sh) ==
  FunctionDecl(pre, sh.type, sh.name, sh.params, sh.gap, sh.hasBody)

(* The MatchFinder::MatchResult values run may be invoked with. A null    *)
(* "target" node is what getNodeAs returns when the binding is absent.     *)
MatchResults ==
  {[SourceManager |-> FileOf(pre, sh), LangOpts |-> <<"c++">>,
    target |-> DeclOf(pre, sh)] : pre \in Prefixes, sh \in Shapes}
  \cup
  {[SourceManager |-> FileOf(LeadingText, sh), LangOpts |-> <<"c++">>,
    target |-> LeadingDecl] : sh \in Shapes}
  \cup
  {[SourceManager |-> FileOf(pre, sh), LangOpts |-> <<"c++">>,
    target |-> NullDecl] : pre \in Prefixes, sh \in Shapes}

NoResult == [SourceManager |-> Uninit, LangOpts |-> Uninit, target |-> NullDecl]

----------------------------------------------------------------------------
(* clang::Rewriter as the handler uses it. A rewrite buffer is the edited  *)
(* text plus the deltas that map offsets of the original file to offsets   *)
(* of the edited text; every call takes offsets of the original file.      *)

RECURSIVE getDeltaAt(_, _)
getDeltaAt(deltas, key) ==
  IF deltas = <<>> THEN 0
  ELSE (IF Head(deltas).key < key THEN Head(deltas).change ELSE 0)
       + getDeltaAt(Tail(deltas), key)

getMappedOffset(rw, offset, afterInserts) ==
  offset + getDeltaAt(rw.deltas, 2 * offset + (IF afterInserts THEN 1 ELSE 0))

(* Lexer::MeasureTokenLength: the length of the token that starts at      *)
(* offset; an identifier runs to the first non-identifier character.       *)
RECURSIVE MeasureTokenLength(_, _)
MeasureTokenLength(sm, offset) ==
  IF offset + 1 > Len(sm) THEN 0
  ELSE IF sm[offset + 1] \notin IdentChars THEN 1
  ELSE IF offset + 2 > Len(sm) \/ sm[offset + 2] \notin IdentChars THEN 1
  ELSE 1 + MeasureTokenLength(sm, offset + 1)

(* Rewriter::getRangeSize of the token range [begin, end]. *)
getRangeSize(rw, begin, end) ==
  getMappedOffset(rw, end, TRUE) + MeasureTokenLength(rw.sm, end)
  - getMappedOffset(rw, begin, TRUE)

(* Rewriter::ReplaceText(SourceRange, NewStr). *)
ReplaceText(rw, begin, end, text) ==
  LET size == getRangeSize(rw, begin, end)
      real == getMappedOffset(rw, begin, TRUE)
  IN [sm |-> rw.sm,
      buf |-> SubSeq(rw.buf, 1, real) \o text \o
              SubSeq(rw.buf, real + size + 1, Len(rw.buf)),
      deltas |-> IF size = Len(text) THEN rw.deltas
                 ELSE Append(rw.deltas, [key |-> 2 * begin + 1,
                                         change |-> Len(text) - size])]

(* Rewriter::InsertText(Loc, Str, InsertAfter). *)
InsertText(rw, offset, text, insertAfter) ==
  LET real == getMappedOffset(rw, offset, insertAfter)
  IN IF text = <<>> THEN rw
     ELSE [sm |-> rw.sm,
           buf |-> SubSeq(rw.buf, 1, real) \o text \o
                   SubSeq(rw.buf, real + 1, Len(rw.buf)),
           deltas |-> Append(rw.deltas, [key |-> 2 * offset,
                                         change |-> Len(text)])]

(* The Rewriter call an edit stands for. *)
Submit(rw, e) ==
  IF e.kind = "Replace" THEN ReplaceText(rw, e.begin, e.end, e.text)
  ELSE IF e.kind = "InsertAfter" THEN InsertText(rw, e.begin, e.text, TRUE)
  ELSE InsertText(rw, e.begin, e.text, FALSE)

Unbound == [sm |-> Uninit, buf |-> <<>>, deltas |-> <<>>]

(* The Rewriter works on one SourceManager: a match from another file     *)
(* comes with the Rewriter bound to that file and no edits yet.            *)
BoundTo(rw, sm) ==
  IF rw.sm = sm THEN rw ELSE [sm |-> sm, buf |-> sm, deltas |-> <<>>]

----------------------------------------------------------------------------
(* The helpers of MemoizeHandler. *)

(* run, "Set internal state": the member takes the value of the result. *)
KeepInternalState(member, value) ==
  IF member = Uninit THEN value ELSE member

SetInternalState(member, value) == value

Suffix == <<"_", "_", "o", "r", "i", "g", "i", "n", "a", "l", "_", "_">>

(* renameOriginalFunction: NewName. *)
MangledName(OriginalName) == OriginalName \o Suffix

(* renameOriginalFunction: the location of the last character of the name. *)
BeforeParametersPastName(fn) == fn.Location + Len(fn.Name)

BeforeParameters(fn) == fn.Location + Len(fn.Name) - 1

(* renameOriginalFunction: ReturnType + " " + NewName. *)
NewDeclaration(fn) ==
  getAsString(fn.ReturnType) \o <<" ">> \o MangledName(fn.Name)

(* renameOriginalFunction: the ReplaceText call. *)
RenameEdit(fn) ==
  [kind |-> "Replace", begin |-> fn.LocStart, end |-> BeforeParameters(fn),
   text |-> NewDeclaration(fn)]

(* getParameterNames: the loop over Function.parameters(). *)
RECURSIVE ParameterNamesLoop(_, _, _)
ParameterNamesLoop(fn, index, ParameterNames) ==
  IF index = Len(fn.Params) THEN ParameterNames
  ELSE LET named == ParameterNames \o fn.Params[index + 1].name
       IN ParameterNamesLoop(fn, index + 1,
            IF index + 1 < Len(fn.Params) THEN named \o <<",", " ">> ELSE named)

getParameterNamesTrailing(fn) ==
  ParameterNamesLoop(fn, 0, <<>>) \o
  (IF Len(fn.Params) > 0 THEN <<",", " ">> ELSE <<>>)

getParameterNames(fn) == ParameterNamesLoop(fn, 0, <<>>)

(* getParameterList: the characters from the one after the name up to,    *)
(* not including, the one before the body's first character.               *)
getParameterList(sm, fn, Name) ==
  CharacterData(sm, fn.Location + Len(Name), fn.BodyStart - 1)

getFunctionPrototype(sm, fn) ==
  getAsString(fn.ReturnType) \o <<" ">> \o fn.Name \o
  getParameterList(sm, fn, fn.Name)

createMemoizedDefinition(fn, proto, newName) ==
  <<"\n", "\n">> \o proto \o <<" ", "{", "\n", "s", "t", "a", "t", "i", "c", " ", "c", "o", "n", "s", "t", " ", "a", "u", "t", "o", " ", "p", "r", "o", "x", "y", " ", "=", " ", "m", "e", "m", "o", "i", "z", "e", "(">> \o
  newName \o <<")", ";", "\n", "r", "e", "t", "u", "r", "n", " ", "p", "r", "o", "x", "y", "(">> \o getParameterNames(fn) \o <<")", ";", "\n", "}">>

(* run: Function.getLocEnd().getLocWithOffset(1). *)
AfterOriginalFunctionAtBrace(fn) == fn.LocEnd

AfterOriginalFunction(fn) == fn.LocEnd + 1

(* run: the InsertTextAfter call. *)
WrapperEditBefore(fn, definition) ==
  [kind |-> "InsertBefore", begin |-> AfterOriginalFunction(fn),
   end |-> AfterOriginalFunction(fn), text |-> definition]

WrapperEdit(fn, definition) ==
  [kind |-> "InsertAfter", begin |-> AfterOriginalFunction(fn),
   end |-> AfterOriginalFunction(fn), text |-> definition]

(* run: the InsertTextBefore call. *)
DeclarationEditAtName(fn, proto) ==
  [kind |-> "InsertBefore", begin |-> fn.Location, end |-> fn.Location,
   text |-> proto \o <<";", "\n">>]

DeclarationEdit(fn, proto) ==
  [kind |-> "InsertBefore", begin |-> fn.LocStart, end |-> fn.LocStart,
   text |-> proto \o <<";", "\n">>]

(* What a null Stmt pointer can yield as the parameter-list text when the *)
(* build does not fault on it.                                             *)
IndeterminateTexts == {<<>>, <<"(">>}

----------------------------------------------------------------------------
(* The state machine. *)

Function == Result.target

Computed(name) == [span |-> name, editsSubmitted |-> Len(edits)]

Init ==
  /\ pc = "idle"
  /\ SourceManager = Uninit
  /\ LanguageOptions = Uninit
  /\ Rewriter = Unbound
  /\ Result = NoResult
  /\ NewName = <<>>
  /\ Prototype = <<>>
  /\ NewDefinition = <<>>
  /\ edits = <<>>
  /\ spanLog = <<>>
  /\ matched = {}
  /\ bufAtEntry = <<>>
  /\ carried = "nothing"
  /\ fault = "none"

(* run is invoked with res: lines 63-72. The matcher hands each definition *)
(* of a file to run once. The assert compares a reference with nullptr and *)
(* exists only in builds that define NDEBUG, where it is empty.            *)
RunEnter(res) ==
  /\ pc \in {"idle", "returned"}
  /\ (res.target # NullDecl /\ Rewriter.sm = res.SourceManager)
       => res.target.LocStart \notin matched
  /\ SourceManager' = SetInternalState(SourceManager, res.SourceManager)
  /\ LanguageOptions' = SetInternalState(LanguageOptions, res.LangOpts)
  /\ Rewriter' = BoundTo(Rewriter, res.SourceManager)
  /\ matched' = IF Rewriter.sm = res.SourceManager THEN matched ELSE {}
  /\ Result' = res
  /\ NewName' = <<>>
  /\ Prototype' = <<>>
  /\ NewDefinition' = <<>>
  /\ edits' = <<>>
  /\ spanLog' = <<>>
  /\ bufAtEntry' = Rewriter'.buf
  /\ carried' = IF SourceManager = Uninit THEN "nothing"
                ELSE IF SourceManager = res.SourceManager THEN "same file"
                ELSE "another file"
  /\ pc' = "entered"
  /\ UNCHANGED fault

(* Line 70 with a null node: the dereference that binds Function faults. *)
NullTargetTrap ==
  /\ pc = "entered"
  /\ Function = NullDecl
  /\ pc' = "crashed"
  /\ fault' = "null target dereferenced at line 70"
  /\ UNCHANGED <<SourceManager, LanguageOptions, Rewriter, Result, NewName,
                 Prototype, NewDefinition, edits, spanLog, matched,
                 bufAtEntry, carried>>

(* Line 153 with a null node: the reference was bound, the first member   *)
(* access through it faults.                                               *)
NullTargetUse ==
  /\ pc = "entered"
  /\ Function = NullDecl
  /\ pc' = "crashed"
  /\ fault' = "null target read at line 153"
  /\ UNCHANGED <<SourceManager, LanguageOptions, Rewriter, Result, NewName,
                 Prototype, NewDefinition, edits, spanLog, matched,
                 bufAtEntry, carried>>

(* Line 74: renameOriginalFunction, lines 151-167. *)
RenameOriginalFunction ==
  /\ pc = "entered"
  /\ Function # NullDecl
  /\ spanLog' = spanLog \o <<Computed("BeforeParameters"),
                              Computed("DeclarationBegin")>>
  /\ Rewriter' = Submit(Rewriter, RenameEdit(Function))
  /\ edits' = Append(edits, RenameEdit(Function))
  /\ NewName' = MangledName(Function.Name)
  /\ pc' = "renamed"
  /\ UNCHANGED <<SourceManager, LanguageOptions, Result, Prototype,
                 NewDefinition, matched, bufAtEntry, carried, fault>>

(* Line 75: getFunctionPrototype, lines 179-216, for a function with a    *)
(* body.                                                                   *)
GetFunctionPrototype ==
  /\ pc = "renamed"
  /\ Function.HasBody
  /\ spanLog' = spanLog \o <<Computed("BeforeParametersLocation"),
                              Computed("AfterParametersLocation")>>
  /\ Prototype' = getFunctionPrototype(SourceManager, Function)
  /\ pc' = "prototyped"
  /\ UNCHANGED <<SourceManager, LanguageOptions, Rewriter, Result, NewName,
                 NewDefinition, edits, matched, bufAtEntry, carried, fault>>

(* Line 75 for a declaration without a body: getBody() is null and line   *)
(* 211 calls getLocStart() through it. The build faults there, or goes on  *)
(* with an indeterminate parameter list.                                   *)
GetFunctionPrototypeNoBody ==
  /\ pc = "renamed"
  /\ ~Function.HasBody
  /\ spanLog' = Append(spanLog, Computed("BeforeParametersLocation"))
  /\ \/ /\ pc' = "crashed"
        /\ fault' = "null body dereferenced at line 211"
        /\ UNCHANGED Prototype
     \/ /\ \E text \in IndeterminateTexts :
             Prototype' = getAsString(Function.ReturnType) \o <<" ">> \o
                          Function.Name \o text
        /\ pc' = "prototyped"
        /\ UNCHANGED fault
  /\ UNCHANGED <<SourceManager, LanguageOptions, Rewriter, Result, NewName,
                 NewDefinition, edits, matched, bufAtEntry, carried>>

(* Line 77: createMemoizedDefinition, lines 98-114. *)
CreateMemoizedDefinition ==
  /\ pc = "prototyped"
  /\ NewDefinition' = createMemoizedDefinition(Function, Prototype, NewName)
  /\ pc' = "defined"
  /\ UNCHANGED <<SourceManager, LanguageOptions, Rewriter, Result, NewName,
                 Prototype, edits, spanLog, matched, bufAtEntry, carried,
                 fault>>

(* Lines 78-79: the wrapper goes one past the end of the function. *)
InsertTextAfter ==
  /\ pc = "defined"
  /\ spanLog' = Append(spanLog, Computed("AfterOriginalFunction"))
  /\ Rewriter' = Submit(Rewriter, WrapperEdit(Function, NewDefinition))
  /\ edits' = Append(edits, WrapperEdit(Function, NewDefinition))
  /\ pc' = "appended"
  /\ UNCHANGED <<SourceManager, LanguageOptions, Result, NewName, Prototype,
                 NewDefinition, matched, bufAtEntry, carried, fault>>

(* Line 85: the forward declaration goes in front; run returns. *)
InsertTextBefore ==
  /\ pc = "appended"
  /\ spanLog' = Append(spanLog, Computed("LocStart"))
  /\ Rewriter' = Submit(Rewriter, DeclarationEdit(Function, Prototype))
  /\ edits' = Append(edits, DeclarationEdit(Function, Prototype))
  /\ matched' = matched \cup {Function.LocStart}
  /\ pc' = "returned"
  /\ UNCHANGED <<SourceManager, LanguageOptions, Result, NewName, Prototype,
                 NewDefinition, bufAtEntry, carried, fault>>

Next ==
  \/ \E res \in MatchResults : RunEnter(res)
  \/ NullTargetTrap
  \/ NullTargetUse
  \/ RenameOriginalFunction
  \/ GetFunctionPrototype
  \/ GetFunctionPrototypeNoBody
  \/ CreateMemoizedDefinition
  \/ InsertTextAfter
  \/ InsertTextBefore

Spec == Init /\ [][Next]_vars

----------------------------------------------------------------------------
(* Properties. *)

(* A match that meets run's preconditions: the node is there and the      *)
(* function has a body (every parameter of the inputs is named).           *)
ValidMatch == Function # NullDecl /\ Function.HasBody

(* C1: on a valid match run submits exactly three edits, in the order     *)
(* Replace, InsertAfter, InsertBefore: at every point of the invocation    *)
(* the edits submitted so far are a prefix of that order, and all three    *)
(* have been submitted when run returns.                                   *)
C1_ThreeEditsInOrder ==
  (pc # "idle" /\ ValidMatch) =>
    /\ [i \in 1..Len(edits) |-> edits[i].kind] =
         SubSeq(<<"Replace", "InsertAfter", "InsertBefore">>, 1, Len(edits))
    /\ (pc = "returned" => Len(edits) = 3)

C1_Witness ==
  /\ pc = "returned"
  /\ ValidMatch
  /\ Len(edits) = 3
  /\ edits[3].kind = "InsertBefore"

(* C2: for a file that holds only "R f(T1 a, T2 b) { BODY }" (one blank   *)
(* between the parameter list and the body), the edited buffer after run   *)
(* is the declaration "R f(T1 a, T2 b);", then the definition of           *)
(* f__original__ with the parameter list and BODY as they were, then the   *)
(* wrapper under the name f that forwards a, b; R as the type printer      *)
(* spells the return type.                                                 *)
C2_RoundTrip ==
  (/\ pc = "returned"
   /\ ValidMatch
   /\ Function.LocStart = 0
   /\ Function.LocEnd + 1 = Len(Result.SourceManager)
   /\ bufAtEntry = Result.SourceManager
   /\ Function.BodyStart =
        Function.Location + Len(Function.Name)
        + Len(ParameterListText(Function.Params)) + 1)
  =>
    LET fn == Function
        R == getAsString(fn.ReturnType)
        plist == ParameterListText(fn.Params)
        body == SubSeq(Result.SourceManager, fn.BodyStart + 1, fn.LocEnd + 1)
        args == CommaSeparated([i \in 1..Len(fn.Params) |-> fn.Params[i].name])
    IN Rewriter.buf =
         R \o <<" ">> \o fn.Name \o plist \o <<";", "\n">> \o
         R \o <<" ">> \o fn.Name \o <<"_", "_", "o", "r", "i", "g", "i", "n", "a", "l", "_", "_">> \o plist \o <<" ">> \o body \o
         <<"\n", "\n">> \o R \o <<" ">> \o fn.Name \o plist \o
         <<" ", "{", "\n", "s", "t", "a", "t", "i", "c", " ", "c", "o", "n", "s", "t", " ", "a", "u", "t", "o", " ", "p", "r", "o", "x", "y", " ", "=", " ", "m", "e", "m", "o", "i", "z", "e", "(">> \o
         fn.Name \o <<"_", "_", "o", "r", "i", "g", "i", "n", "a", "l", "_", "_">> \o <<")", ";", "\n", "r", "e", "t", "u", "r", "n", " ", "p", "r", "o", "x", "y", "(">> \o args \o
         <<")", ";", "\n", "}">>

C2_Witness ==
  /\ pc = "returned"
  /\ ValidMatch
  /\ Function.LocStart = 0
  /\ Function.LocEnd + 1 = Len(Result.SourceManager)
  /\ bufAtEntry = Result.SourceManager
  /\ Function.BodyStart =
       Function.Location + Len(Function.Name)
       + Len(ParameterListText(Function.Params)) + 1
  /\ Len(Function.Params) = 2

(* C3 as stated: the offset of the InsertBefore edit is strictly less     *)
(* than both ends of the Replace span and than the InsertAfter offset.     *)
C3_Original ==
  (pc = "returned" /\ ValidMatch) =>
    /\ edits[3].begin < edits[1].begin
    /\ edits[3].begin < edits[1].end
    /\ edits[3].begin < edits[2].begin

(* C3 amended: the offset of the InsertBefore edit equals the offset at   *)
(* which the Replace span begins, and is strictly less than the end of the *)
(* Replace span and than the InsertAfter offset.                           *)
C3_Amended ==
  (pc = "returned" /\ ValidMatch) =>
    /\ edits[1].kind = "Replace"
    /\ edits[2].kind = "InsertAfter"
    /\ edits[3].kind = "InsertBefore"
    /\ edits[3].begin = edits[1].begin
    /\ edits[3].begin < edits[1].end
    /\ edits[3].begin < edits[2].begin

C3_Witness ==
  /\ pc = "returned"
  /\ ValidMatch
  /\ edits[3].begin > 0
  /\ edits[3].begin = edits[1].begin

(* C4 as stated: when an invocation of run ends, by returning or by a     *)
(* fatal stop, it has submitted 0 or 3 edits, never 1 or 2.                *)
C4_Original ==
  pc \in {"returned", "crashed"} => Len(edits) \in {0, 3}

(* C5 as stated: for a matched definition the prototype is exactly        *)
(* "R name(T1 n1, T2 n2)", whatever lies between ")" and "{".              *)
C5_Original ==
  (pc \in {"prototyped", "defined", "appended", "returned"} /\ ValidMatch) =>
    Prototype = getAsString(Function.ReturnType) \o <<" ">> \o Function.Name \o
                ParameterListText(Function.Params)

(* C6: getParameterNames yields the names in declared order joined by     *)
(* ", " (k - 1 separators, the empty text for k = 0), and the wrapper ends *)
(* in the call "proxy(" + names + ")".                                     *)
C6_ForwardedNames ==
  (pc \in {"defined", "appended", "returned"} /\ ValidMatch) =>
    LET k == Len(Function.Params)
        args == CommaSeparated([i \in 1..k |-> Function.Params[i].name])
        tail == <<")", ";", "\n", "r", "e", "t", "u", "r", "n", " ", "p", "r", "o", "x", "y", "(">> \o args \o <<")", ";", "\n", "}">>
    IN /\ getParameterNames(Function) = args
       /\ Cardinality({i \in DOMAIN args : args[i] = ","}) =
            (IF k = 0 THEN 0 ELSE k - 1)
       /\ Len(NewDefinition) >= Len(tail)
       /\ SubSeq(NewDefinition, Len(NewDefinition) - Len(tail) + 1,
                 Len(NewDefinition)) = tail

C6_Witness ==
  /\ pc = "returned"
  /\ ValidMatch
  /\ Len(Function.Params) >= 3
  /\ getParameterNames(Function) = <<"x", ",", " ", "y", ",", " ", "z">> \o
       SubSeq(getParameterNames(Function), 8, Len(getParameterNames(Function)))

(* C7 as stated: every location run computes is computed before the       *)
(* first edit of the invocation is submitted.                              *)
C7_Original ==
  \A i \in DOMAIN spanLog : spanLog[i].editsSubmitted = 0

(* C8: the Replace covers the text from the first character of the        *)
(* definition through the last character of the name, no more and no less: *)
(* right after it the buffer is the buffer at entry with that text         *)
(* replaced, the parameter list and the body follow the new text as they   *)
(* were; the InsertAfter offset is one past the closing brace.             *)
C8_ReplaceFrame ==
  /\ (pc = "renamed" /\ Function # NullDecl) =>
       LET fn == Function
           sm == Result.SourceManager
           nameEnd == fn.Location + Len(fn.Name)
           old == SubSeq(sm, fn.LocStart + 1, nameEnd)
           rest == SubSeq(sm, nameEnd + 1, fn.LocEnd + 1)
           new == getAsString(fn.ReturnType) \o <<" ">> \o fn.Name \o
                  <<"_", "_", "o", "r", "i", "g", "i", "n", "a", "l", "_", "_">>
       IN /\ edits[1].kind = "Replace"
          /\ edits[1].begin = fn.LocStart
          /\ edits[1].end = nameEnd - 1
          /\ sm[nameEnd + 1] = "("
          /\ Len(Rewriter.buf) = Len(bufAtEntry) - Len(old) + Len(new)
          /\ \E p \in 0..(Len(bufAtEntry) - Len(old) - Len(rest)) :
               /\ SubSeq(Rewriter.buf, 1, p) = SubSeq(bufAtEntry, 1, p)
               /\ SubSeq(bufAtEntry, p + 1, p + Len(old)) = old
               /\ SubSeq(Rewriter.buf, p + 1, p + Len(new) + Len(rest)) =
                    new \o rest
               /\ SubSeq(Rewriter.buf, p + Len(new) + 1, Len(Rewriter.buf)) =
                    SubSeq(bufAtEntry, p + Len(old) + 1, Len(bufAtEntry))
  /\ (pc \in {"appended", "returned"} /\ ValidMatch) =>
       /\ edits[2].kind = "InsertAfter"
       /\ edits[2].begin = Function.LocEnd + 1
       /\ Result.SourceManager[Function.LocEnd + 1] = "}"

C8_Witness ==
  /\ pc = "renamed"
  /\ ValidMatch
  /\ Len(Function.Name) >= 2
  /\ Function.LocStart > 0
  /\ Len(Rewriter.buf) = Len(bufAtEntry) + Len(Suffix)
       + Len(getAsString(Function.ReturnType))
       - Len(WrittenType(Function.ReturnType))

(* C9 as stated: the Replace writes name + "__original__", the wrapper    *)
(* passes that identifier to memoize, the wrapper and the forward          *)
(* declaration carry the original name, and in the buffer a declaration of *)
(* the original name stands right in front of the renamed definition.      *)
C9_Original ==
  (pc = "returned" /\ ValidMatch) =>
    LET fn == Function
        sm == Result.SourceManager
        R == getAsString(fn.ReturnType)
        plist == ParameterListText(fn.Params)
        mangled == fn.Name \o <<"_", "_", "o", "r", "i", "g", "i", "n", "a", "l", "_", "_">>
        args == CommaSeparated([i \in 1..Len(fn.Params) |-> fn.Params[i].name])
        rest == SubSeq(sm, fn.Location + Len(fn.Name) + 1, fn.LocEnd + 1)
        head == <<"\n", "\n">> \o R \o <<" ">> \o fn.Name \o <<"(">>
    IN /\ edits[1].text = R \o <<" ">> \o mangled
       /\ edits[2].text =
            <<"\n", "\n">> \o Prototype \o <<" ", "{", "\n", "s", "t", "a", "t", "i", "c", " ", "c", "o", "n", "s", "t", " ", "a", "u", "t", "o", " ", "p", "r", "o", "x", "y", " ", "=", " ", "m", "e", "m", "o", "i", "z", "e", "(">>
            \o mangled \o <<")", ";", "\n", "r", "e", "t", "u", "r", "n", " ", "p", "r", "o", "x", "y", "(">> \o args \o <<")", ";", "\n", "}">>
       /\ SubSeq(edits[2].text, 1, Len(head)) = head
       /\ \E n \in 0..MaxGap :
            /\ edits[3].text =
                 R \o <<" ">> \o fn.Name \o plist \o Spaces(n) \o <<";", "\n">>
            /\ \E p \in 0..Len(Rewriter.buf) :
                 LET both == edits[3].text \o R \o <<" ">> \o mangled \o rest
                 IN /\ p + Len(both) <= Len(Rewriter.buf)
                    /\ SubSeq(Rewriter.buf, p + 1, p + Len(both)) = both

(* C10: the edits run submits for a match are those a handler that has    *)
(* seen nothing before would submit for it, computed from the match's own  *)
(* function and file, whatever run was given earlier; and an invocation    *)
(* starts only when no other is part-way through its edits.                *)
C10_MatchAlone ==
  /\ [](( pc # "idle" /\ ValidMatch) =>
         LET fn == Function
             proto == getFunctionPrototype(Result.SourceManager, fn)
             plan == << RenameEdit(fn),
                        WrapperEdit(fn, createMemoizedDefinition(
                                          fn, proto, MangledName(fn.Name))),
                        DeclarationEdit(fn, proto) >>
         IN /\ edits = SubSeq(plan, 1, Len(edits))
            /\ (pc = "returned" => edits = plan))
  /\ [][pc' = "entered" =>
          (pc = "idle" \/ (pc = "returned" /\ Len(edits) = 3))]_vars

C10_Witness ==
  /\ pc = "returned"
  /\ ValidMatch
  /\ carried = "another file"
  /\ Len(edits) = 3

====
